---- MODULE Spec2Model ----
(***************************************************************************)
(* Model of main.c: an MPI program in which rank PROCESO_ORIGEN sends the  *)
(* upper triangle of a square matrix to rank PROCESO_DESTINO through an    *)
(* indexed derived datatype.                                               *)
(*                                                                         *)
(* Buffers and tables are functions over 0-based C indices.  One process   *)
(* per rank runs main(); the MPI library calls (barrier, send, receive,    *)
(* abort, type construction) are modelled by what the MPI standard says    *)
(* they do.  In the process model malloc is taken to succeed; the          *)
(* behaviour of generar_tipo_triangular_superior when malloc fails is      *)
(* modelled separately (SpecAlloc).                                        *)
(***************************************************************************)
EXTENDS Integers, Sequences, FiniteSets

(* ----------------------------- constants ------------------------------ *)

ETIQUETA_MENSAJE == 10
PROCESO_ORIGEN == 0
PROCESO_DESTINO == 1
NUM_ITERACIONES == 1
\* the literal assigned to dimension_matriz in main
DIMENSION_MATRIZ == 4
\* exit code passed to MPI_Abort by verificar_configuracion
CODIGO_ABORT == 1
\* value returned by main
CODIGO_EXITO == 0

(* ------------------------------- bounds ------------------------------- *)

\* largest group size (mpirun -np) explored
MaxProcs == 3
\* largest matrix dimension explored where the dimension is drawn
MaxDim == 4
\* the function harness draws buffer contents from fills with 0 .. MaxValor and
\* from sequential numberings shifted by 0 .. MaxValor matrix sizes
MaxValor == 2

VARIABLES
    total_procesos,    \* MPI_Comm_size: the number of ranks of the run
    dimension,         \* the value of the literal at "int dimension_matriz = ..."
    pc,                \* pc[p]: where rank p stands in main()
    dimension_matriz,  \* dimension_matriz[p]: the local of rank p (0: not yet set)
    matriz,            \* matriz[p]: the matrix of rank p
    tipo_triang_sup,   \* tipo_triang_sup[p]: the datatype handle of rank p
    matriz_recibida,   \* matriz_recibida[p]: the receive buffer (destination only)
    barrera,           \* ranks that have entered MPI_Barrier
    red,               \* messages posted by MPI_Send and not yet received, in order
    codigo_salida,     \* codigo_salida[p]: exit code of rank p, SinSalir while running
    verificaciones,    \* history: ranks that ran verificar_configuracion, in order
    pasaron,           \* history: ranks that returned from MPI_Barrier
    envios,            \* history: every MPI_Send call issued
    llamadas_recv,     \* history: every MPI_Recv call issued
    recepciones,       \* history: every MPI_Recv call that returned
    fn,                \* state of the function harness (SpecFn)
    al                 \* state of the allocation harness (SpecAlloc)

vars_mpi ==
    <<total_procesos, dimension, pc, dimension_matriz, matriz, tipo_triang_sup,
      matriz_recibida, barrera, red, codigo_salida, verificaciones, pasaron,
      envios, llamadas_recv, recepciones>>

vars == <<vars_mpi, fn, al>>

Rangos == 0 .. (total_procesos - 1)

\* the exit state of a rank that has not left main
SinSalir == [causa |-> "en_ejecucion"]

\* the exit state of a rank that left with exit code `codigo`
Salida(causa, codigo) == [causa |-> causa, codigo |-> codigo]

\* the exit state of a rank killed by the library's fatal error handler
\* (MPI_ERRORS_ARE_FATAL): the code is the implementation's, not the program's
SalidaError == [causa |-> "error_mpi"]

(* ------------------------- buffers (malloc/free) ---------------------- *)

\* a pointer that has not been assigned yet
SinAsignar == [estado |-> "sin_asignar", datos |-> <<>>]

\* the state of a buffer after free()
Liberada == [estado |-> "liberada", datos |-> <<>>]

Viva(datos) == [estado |-> "viva", datos |-> datos]

\* free(p): releases a live allocation.  Freeing a pointer that was never
\* assigned or was already freed is undefined behaviour, recorded as a
\* corrupted allocation.
free(buf) ==
    IF buf.estado = "viva" THEN Liberada ELSE [estado |-> "corrupta", datos |-> <<>>]

\* mutant of crear_matriz: the test of inicializar is inverted
crear_matriz_invertida(dim, inicializar) ==
    Viva([i \in 0 .. (dim * dim - 1) |->
            LET fila == i \div dim
                columna == i % dim
            IN  IF inicializar = 0 THEN fila * dim + columna ELSE 0])

\* crear_matriz(dimension, inicializar): dimension*dimension ints, row-major,
\* filled with fila*dimension+columna when inicializar # 0, with 0 otherwise
crear_matriz(dim, inicializar) ==
    Viva([i \in 0 .. (dim * dim - 1) |->
            LET fila == i \div dim
                columna == i % dim
            IN  IF inicializar # 0 THEN fila * dim + columna ELSE 0])

(* ------------------------- the derived datatype ----------------------- *)

TipoIndefinido ==
    [estado |-> "indefinido", cuenta |-> 0, longitudes |-> <<>>, desplazamientos |-> <<>>]

\* mutant of longitudes_bloques: every block as long as a whole row
longitudes_completas(dim) == [fila \in 0 .. (dim - 1) |-> dim]

\* mutant of longitudes_bloques: each block one element short
longitudes_menos_uno(dim) == [fila \in 0 .. (dim - 1) |-> dim - fila - 1]

\* the loop of generar_tipo_triangular_superior: table longitudes_bloques
longitudes_bloques(dim) == [fila \in 0 .. (dim - 1) |-> dim - fila]

\* mutant of desplazamientos: the row start without the diagonal shift
desplazamientos_sin_diagonal(dim) == [fila \in 0 .. (dim - 1) |-> fila * dim]

\* the loop of generar_tipo_triangular_superior: table desplazamientos
desplazamientos(dim) == [fila \in 0 .. (dim - 1) |-> (fila * dim) + fila]

\* MPI_Type_indexed(count, lengths, displacements, MPI_INT, &t): the new type
\* copies the two tables; it is not yet committed
MPI_Type_indexed(cuenta, longs, despl) ==
    [estado |-> "creado", cuenta |-> cuenta,
     longitudes |-> [i \in 0 .. (cuenta - 1) |-> longs[i]],
     desplazamientos |-> [i \in 0 .. (cuenta - 1) |-> despl[i]]]

\* mutant of MPI_Type_commit: the commit is left out
MPI_Type_commit_omitido(t) == t

MPI_Type_commit(t) == [t EXCEPT !.estado = "comprometido"]

\* MPI_Type_free(&t): releases a created type; a handle that holds no type
\* (never built, or already freed) is an invalid argument
MPI_Type_free(t) ==
    IF t.estado \in {"creado", "comprometido"}
    THEN [t EXCEPT !.estado = "liberado"]
    ELSE [t EXCEPT !.estado = "invalido"]

\* mutant of generar_tipo_triangular_superior: the two tables are passed to
\* MPI_Type_indexed in each other's place
generar_tablas_cambiadas(dim) ==
    MPI_Type_commit(MPI_Type_indexed(dim, desplazamientos(dim), longitudes_bloques(dim)))

\* generar_tipo_triangular_superior(dimension), with both malloc calls succeeding
generar_tipo_triangular_superior(dim) ==
    MPI_Type_commit(MPI_Type_indexed(dim, longitudes_bloques(dim), desplazamientos(dim)))

\* the offsets of block i of an indexed type, in order
Bloque(t, i) == [j \in 1 .. t.longitudes[i] |-> t.desplazamientos[i] + (j - 1)]

RECURSIVE MapaDesde(_, _)
\* the type map from block i on: the blocks' offsets concatenated in block order
MapaDesde(t, i) ==
    IF i >= t.cuenta THEN <<>> ELSE Bloque(t, i) \o MapaDesde(t, i + 1)

\* the extent of an indexed type over MPI_INT, in elements: from the lowest
\* displacement to the end of the farthest block
Extension(t) ==
    IF t.cuenta = 0 THEN 0
    ELSE LET finales == {t.desplazamientos[i] + t.longitudes[i] : i \in 0 .. (t.cuenta - 1)}
             inicios == {t.desplazamientos[i] : i \in 0 .. (t.cuenta - 1)}
             maximo == CHOOSE x \in finales : \A y \in finales : y <= x
             minimo == CHOOSE x \in inicios : \A y \in inicios : x <= y
         IN  maximo - minimo

RECURSIVE MapaDeTipo(_, _)
\* the offsets named by `repeticiones` consecutive items of type t, in wire order
MapaDeTipo(t, repeticiones) ==
    IF repeticiones <= 0 THEN <<>>
    ELSE LET base == MapaDesde(t, 0)
             k == repeticiones - 1
         IN  MapaDeTipo(t, k) \o [j \in 1 .. Len(base) |-> base[j] + k * Extension(t)]

\* mutant of Empaquetar: the datatype's displacements are ignored and the
\* first elements of the buffer are sent
Empaquetar_contiguo(datos, repeticiones, t) ==
    LET mapa == MapaDeTipo(t, repeticiones)
    IN  [k \in 1 .. Len(mapa) |-> datos[k - 1]]

\* what a send reads: the values at the type map's offsets, in wire order
Empaquetar(datos, repeticiones, t) ==
    LET mapa == MapaDeTipo(t, repeticiones)
    IN  [k \in 1 .. Len(mapa) |-> datos[mapa[k]]]

\* mutant of Desempaquetar: the datatype's displacements are ignored and the
\* wire elements are stored one after the other from the start of the buffer
Desempaquetar_contiguo(datos, repeticiones, t, cable) ==
    [i \in DOMAIN datos |-> IF i < Len(cable) THEN cable[i + 1] ELSE datos[i]]

\* what a receive writes: wire element k goes to the k-th offset of the type map;
\* every other offset of the buffer keeps its value
Desempaquetar(datos, repeticiones, t, cable) ==
    LET mapa == MapaDeTipo(t, repeticiones)
        n == IF Len(cable) < Len(mapa) THEN Len(cable) ELSE Len(mapa)
    IN  [i \in DOMAIN datos |->
            IF \E k \in 1 .. n : mapa[k] = i
            THEN cable[CHOOSE k \in 1 .. n :
                          mapa[k] = i /\ \A k2 \in 1 .. n : mapa[k2] = i => k2 <= k]
            ELSE datos[i]]

(* ------------------------------ messages ------------------------------ *)

\* mutant of CopiaAlEnviar: a buffered send that keeps a pointer to the user
\* buffer instead of copying it
NuncaCopia(modo) == FALSE

\* MPI_Send is a standard-mode send: the library either copies the data out of
\* the user buffer during the call ("tamponado") or leaves them there until the
\* matching receive reads them ("sincrono").  Whether the data are copied
\* during the call:
CopiaAlEnviar(modo) == modo = "tamponado"


\* the message MPI_Send(matriz, NUM_ITERACIONES, tipo_triang_sup,
\* PROCESO_DESTINO, ETIQUETA_MENSAJE, MPI_COMM_WORLD) posts when called by p
Mensaje(p, modo) ==
    [origen |-> p, destino |-> PROCESO_DESTINO, etiqueta |-> ETIQUETA_MENSAJE,
     modo |-> modo, copiado |-> CopiaAlEnviar(modo),
     cable |-> IF CopiaAlEnviar(modo)
               THEN Empaquetar(matriz[p].datos, NUM_ITERACIONES, tipo_triang_sup[p])
               ELSE <<>>]

\* whether message m matches MPI_Recv(.., origen, etiqueta, MPI_COMM_WORLD) of p
Coincide(m, p, origen, etiqueta) ==
    m.destino = p /\ m.origen = origen /\ m.etiqueta = etiqueta

\* the index in red of the message a receive of p matches: the earliest one
\* (messages between one pair of ranks do not overtake), 0 when none
PrimerMensaje(p, origen, etiqueta) ==
    IF \E i \in 1 .. Len(red) : Coincide(red[i], p, origen, etiqueta)
    THEN CHOOSE i \in 1 .. Len(red) :
            /\ Coincide(red[i], p, origen, etiqueta)
            /\ \A j \in 1 .. (i - 1) : ~Coincide(red[j], p, origen, etiqueta)
    ELSE 0

\* the wire contents a receive may obtain from message m.  Data copied at the
\* call are what was copied.  Data left in the sender's buffer are read now:
\* from a live buffer they are its contents, from a freed one anything.
CablesDe(m, largo) ==
    IF m.copiado THEN {m.cable}
    ELSE IF matriz[m.origen].estado = "viva"
              /\ tipo_triang_sup[m.origen].estado = "comprometido"
         THEN {Empaquetar(matriz[m.origen].datos, NUM_ITERACIONES,
                          tipo_triang_sup[m.origen])}
         ELSE {[k \in 1 .. largo |-> 0], [k \in 1 .. largo |-> 0 - 1]}

\* mutant of SinElemento: the matched message stays on the network
SinQuitar(s, i) == s

\* sequence s without its i-th element
SinElemento(s, i) == [k \in 1 .. (Len(s) - 1) |-> IF k < i THEN s[k] ELSE s[k + 1]]

\* whether r names a rank of MPI_COMM_WORLD
RangoValido(r) == r \in Rangos

(* ------------------------------- abort -------------------------------- *)

\* the ranks MPI_Abort(MPI_COMM_WORLD, code) terminates: every rank of the
\* communicator that is still running
VictimasAbort(llamador) ==
    {p \in Rangos : pc[p] \notin {"terminado", "abortado"}}

\* the effect of a group-wide termination started by `llamador` on pc and on
\* the exit codes
Terminar(llamador, salida) ==
    /\ pc' = [p \in Rangos |->
                IF p \in VictimasAbort(llamador) THEN "abortado" ELSE pc[p]]
    /\ codigo_salida' = [p \in Rangos |->
                IF p \in VictimasAbort(llamador) THEN salida ELSE codigo_salida[p]]

\* mutant of MPI_Abort: the exit code passed by the caller is dropped
MPI_Abort_sin_codigo(llamador, codigo) == Terminar(llamador, Salida("MPI_Abort", 0))

\* MPI_Abort(MPI_COMM_WORLD, codigo) called by `llamador`
MPI_Abort(llamador, codigo) == Terminar(llamador, Salida("MPI_Abort", codigo))

(* ---------------------------- validation ------------------------------ *)

\* mutant of verificar_configuracion: the group-size threshold is off by one
verificar_umbral(total) ==
    \/ NUM_ITERACIONES # 1
    \/ PROCESO_ORIGEN = PROCESO_DESTINO
    \/ total < 1

\* mutant of verificar_configuracion: the group-size check is missing
verificar_sin_tamano(total) ==
    \/ NUM_ITERACIONES # 1
    \/ PROCESO_ORIGEN = PROCESO_DESTINO

\* verificar_configuracion(total_procesos): TRUE when one of its three checks
\* calls MPI_Abort (which does not return, so the checks are alternatives)
verificar_configuracion(total) ==
    \/ NUM_ITERACIONES # 1
    \/ PROCESO_ORIGEN = PROCESO_DESTINO
    \/ total < 2

(* ------------------------- the steps of main() ------------------------ *)

\* the harnesses do not run in the process model
Inactivo == [paso |-> "inactivo"]

\* the state after MPI_Init, MPI_Comm_rank and MPI_Comm_size, for a run of
\* `total` ranks with the literal `dim` as matrix dimension
EstadoInicial(total, dim) ==
    /\ total_procesos = total
    /\ dimension = dim
    /\ pc = [p \in 0 .. (total - 1) |-> "verificar"]
    /\ dimension_matriz = [p \in 0 .. (total - 1) |-> 0]
    /\ matriz = [p \in 0 .. (total - 1) |-> SinAsignar]
    /\ tipo_triang_sup = [p \in 0 .. (total - 1) |-> TipoIndefinido]
    /\ matriz_recibida = [p \in 0 .. (total - 1) |-> SinAsignar]
    /\ barrera = {}
    /\ red = <<>>
    /\ codigo_salida = [p \in 0 .. (total - 1) |-> SinSalir]
    /\ verificaciones = <<>>
    /\ pasaron = {}
    /\ envios = <<>>
    /\ llamadas_recv = <<>>
    /\ recepciones = <<>>

\* the program as written: dimension_matriz = 4, any group size up to MaxProcs
Init ==
    /\ \E total \in 1 .. MaxProcs : EstadoInicial(total, DIMENSION_MATRIZ)
    /\ fn = Inactivo
    /\ al = Inactivo

\* if (rango_proceso == PROCESO_ORIGEN) verificar_configuracion(total_procesos);
Verificar(p) ==
    /\ pc[p] = "verificar"
    /\ IF p = PROCESO_ORIGEN
       THEN /\ verificaciones' = Append(verificaciones, p)
            /\ IF verificar_configuracion(total_procesos)
               THEN MPI_Abort(p, CODIGO_ABORT)
               ELSE /\ pc' = [pc EXCEPT ![p] = "barrera"]
                    /\ UNCHANGED codigo_salida
       ELSE /\ pc' = [pc EXCEPT ![p] = "barrera"]
            /\ UNCHANGED <<codigo_salida, verificaciones>>
    /\ UNCHANGED <<total_procesos, dimension, dimension_matriz, matriz,
                   tipo_triang_sup, matriz_recibida, barrera, red, pasaron,
                   envios, llamadas_recv, recepciones, fn, al>>

\* MPI_Barrier(MPI_COMM_WORLD): the call
EntrarBarrera(p) ==
    /\ pc[p] = "barrera"
    /\ barrera' = barrera \cup {p}
    /\ pc' = [pc EXCEPT ![p] = "en_barrera"]
    /\ UNCHANGED <<total_procesos, dimension, dimension_matriz, matriz,
                   tipo_triang_sup, matriz_recibida, red, codigo_salida,
                   verificaciones, pasaron, envios, llamadas_recv, recepciones,
                   fn, al>>

\* mutant of BarreraCompleta: the barrier lets a rank through without waiting
BarreraSinEsperar == TRUE

\* mutant of BarreraCompleta: the barrier waits for one rank more than the group has
BarreraDeMas == barrera = 0 .. total_procesos

\* MPI_Barrier returns once every rank of the communicator has entered it
BarreraCompleta == barrera = Rangos

\* MPI_Barrier(MPI_COMM_WORLD): the return
SalirBarrera(p) ==
    /\ pc[p] = "en_barrera"
    /\ BarreraCompleta
    /\ pasaron' = pasaron \cup {p}
    /\ pc' = [pc EXCEPT ![p] = "crear_matriz"]
    /\ UNCHANGED <<total_procesos, dimension, dimension_matriz, matriz,
                   tipo_triang_sup, matriz_recibida, barrera, red, codigo_salida,
                   verificaciones, envios, llamadas_recv, recepciones, fn, al>>

\* mutant of dimension_local: the dimension depends on the rank
dimension_por_rango(p) == dimension + p

\* int dimension_matriz = 4;  the same literal in every rank
dimension_local(p) == dimension

\* int dimension_matriz = 4;  int* matriz = crear_matriz(dimension_matriz, 1);
CrearMatriz(p) ==
    /\ pc[p] = "crear_matriz"
    /\ dimension_matriz' = [dimension_matriz EXCEPT ![p] = dimension_local(p)]
    /\ matriz' = [matriz EXCEPT ![p] = crear_matriz(dimension_local(p), 1)]
    /\ pc' = [pc EXCEPT ![p] = "generar_tipo"]
    /\ UNCHANGED <<total_procesos, dimension, tipo_triang_sup, matriz_recibida,
                   barrera, red, codigo_salida, verificaciones, pasaron, envios,
                   llamadas_recv, recepciones, fn, al>>

\* the branch of main a rank takes after building its datatype
Rama(p) ==
    IF p = PROCESO_ORIGEN THEN "enviar"
    ELSE IF p = PROCESO_DESTINO THEN "crear_recibida"
    ELSE "liberar_matriz"

\* MPI_Datatype tipo_triang_sup = generar_tipo_triangular_superior(dimension_matriz);
GenerarTipo(p) ==
    /\ pc[p] = "generar_tipo"
    /\ tipo_triang_sup' = [tipo_triang_sup EXCEPT
                             ![p] = generar_tipo_triangular_superior(dimension_matriz[p])]
    /\ pc' = [pc EXCEPT ![p] = Rama(p)]
    /\ UNCHANGED <<total_procesos, dimension, dimension_matriz, matriz,
                   matriz_recibida, barrera, red, codigo_salida, verificaciones,
                   pasaron, envios, llamadas_recv, recepciones, fn, al>>

\* the sender's branch: mostrar_matriz, then MPI_Send.  A destination that is
\* no rank of the communicator is a fatal MPI error.  Otherwise the message is
\* posted; a buffered send returns at once, a synchronous one blocks until the
\* receive has matched it.
Enviar(p) ==
    /\ pc[p] = "enviar"
    /\ IF ~RangoValido(PROCESO_DESTINO)
       THEN /\ Terminar(p, SalidaError)
            /\ envios' = Append(envios, [origen |-> p, destino |-> PROCESO_DESTINO,
                                         etiqueta |-> ETIQUETA_MENSAJE,
                                         resultado |-> "error", cable |-> <<>>,
                                         tipo |-> tipo_triang_sup[p]])
            /\ UNCHANGED red
       ELSE \E modo \in {"tamponado", "sincrono"} :
            /\ red' = Append(red, Mensaje(p, modo))
            /\ envios' = Append(envios,
                   [origen |-> p, destino |-> PROCESO_DESTINO,
                    etiqueta |-> ETIQUETA_MENSAJE, resultado |-> modo,
                    cable |-> Empaquetar(matriz[p].datos, NUM_ITERACIONES,
                                         tipo_triang_sup[p]),
                    tipo |-> tipo_triang_sup[p]])
            /\ pc' = [pc EXCEPT ![p] = IF modo = "tamponado"
                                       THEN "liberar_matriz" ELSE "send_bloqueado"]
            /\ UNCHANGED codigo_salida
    /\ UNCHANGED <<total_procesos, dimension, dimension_matriz, matriz,
                   tipo_triang_sup, matriz_recibida, barrera, verificaciones,
                   pasaron, llamadas_recv, recepciones, fn, al>>

\* the receiver's branch: int* matriz_recibida = crear_matriz(dimension_matriz, 0);
CrearRecibida(p) ==
    /\ pc[p] = "crear_recibida"
    /\ matriz_recibida' = [matriz_recibida EXCEPT
                             ![p] = crear_matriz(dimension_matriz[p], 0)]
    /\ pc' = [pc EXCEPT ![p] = "recibir"]
    /\ UNCHANGED <<total_procesos, dimension, dimension_matriz, matriz,
                   tipo_triang_sup, barrera, red, codigo_salida, verificaciones,
                   pasaron, envios, llamadas_recv, recepciones, fn, al>>

\* MPI_Recv(matriz_recibida, NUM_ITERACIONES, tipo_triang_sup, PROCESO_ORIGEN,
\* ETIQUETA_MENSAJE, ...): the call.  A source that is no rank of the
\* communicator is a fatal MPI error; otherwise the rank blocks.
Recibir(p) ==
    /\ pc[p] = "recibir"
    /\ llamadas_recv' = Append(llamadas_recv,
           [por |-> p, origen |-> PROCESO_ORIGEN, etiqueta |-> ETIQUETA_MENSAJE])
    /\ IF ~RangoValido(PROCESO_ORIGEN)
       THEN Terminar(p, SalidaError)
       ELSE /\ pc' = [pc EXCEPT ![p] = "recv_bloqueado"]
            /\ UNCHANGED codigo_salida
    /\ UNCHANGED <<total_procesos, dimension, dimension_matriz, matriz,
                   tipo_triang_sup, matriz_recibida, barrera, red, verificaciones,
                   pasaron, envios, recepciones, fn, al>>

\* MPI_Recv: the return.  The earliest matching message is taken off the
\* network and unpacked through the receiver's datatype; a synchronous sender
\* is released.  A message longer than the receive's type map is a fatal MPI
\* error (truncation).
CompletarRecibir(p) ==
    /\ pc[p] = "recv_bloqueado"
    /\ PrimerMensaje(p, PROCESO_ORIGEN, ETIQUETA_MENSAJE) # 0
    /\ LET i == PrimerMensaje(p, PROCESO_ORIGEN, ETIQUETA_MENSAJE)
           m == red[i]
           largo == Len(MapaDeTipo(tipo_triang_sup[p], NUM_ITERACIONES))
       IN  \E cable \in CablesDe(m, largo) :
           /\ red' = SinElemento(red, i)
           /\ recepciones' = Append(recepciones,
                  [por |-> p, origen |-> m.origen, etiqueta |-> m.etiqueta,
                   cable |-> cable, tipo |-> tipo_triang_sup[p],
                   origen_vivo |-> matriz[m.origen].estado = "viva"])
           /\ IF Len(cable) > largo
              THEN /\ Terminar(p, SalidaError)
                   /\ UNCHANGED matriz_recibida
              ELSE /\ matriz_recibida' = [matriz_recibida EXCEPT ![p] =
                          Viva(Desempaquetar(matriz_recibida[p].datos, NUM_ITERACIONES,
                                             tipo_triang_sup[p], cable))]
                   /\ pc' = [q \in Rangos |->
                               IF q = p THEN "mostrar"
                               ELSE IF q = m.origen /\ pc[q] = "send_bloqueado"
                                    THEN "liberar_matriz"
                                    ELSE pc[q]]
                   /\ UNCHANGED codigo_salida
    /\ UNCHANGED <<total_procesos, dimension, dimension_matriz, matriz,
                   tipo_triang_sup, barrera, verificaciones, pasaron, envios,
                   llamadas_recv, fn, al>>

\* mostrar_matriz(matriz_recibida, ...); free(matriz_recibida);
MostrarYLiberar(p) ==
    /\ pc[p] = "mostrar"
    /\ matriz_recibida' = [matriz_recibida EXCEPT ![p] = free(@)]
    /\ pc' = [pc EXCEPT ![p] = "liberar_matriz"]
    /\ UNCHANGED <<total_procesos, dimension, dimension_matriz, matriz,
                   tipo_triang_sup, barrera, red, codigo_salida, verificaciones,
                   pasaron, envios, llamadas_recv, recepciones, fn, al>>

\* free(matriz);
LiberarMatriz(p) ==
    /\ pc[p] = "liberar_matriz"
    /\ matriz' = [matriz EXCEPT ![p] = free(@)]
    /\ pc' = [pc EXCEPT ![p] = "liberar_tipo"]
    /\ UNCHANGED <<total_procesos, dimension, dimension_matriz, tipo_triang_sup,
                   matriz_recibida, barrera, red, codigo_salida, verificaciones,
                   pasaron, envios, llamadas_recv, recepciones, fn, al>>

\* MPI_Type_free(&tipo_triang_sup);
LiberarTipo(p) ==
    /\ pc[p] = "liberar_tipo"
    /\ tipo_triang_sup' = [tipo_triang_sup EXCEPT ![p] = MPI_Type_free(@)]
    /\ pc' = [pc EXCEPT ![p] = "finalizar"]
    /\ UNCHANGED <<total_procesos, dimension, dimension_matriz, matriz,
                   matriz_recibida, barrera, red, codigo_salida, verificaciones,
                   pasaron, envios, llamadas_recv, recepciones, fn, al>>

\* MPI_Finalize(); return 0;
Finalizar(p) ==
    /\ pc[p] = "finalizar"
    /\ pc' = [pc EXCEPT ![p] = "terminado"]
    /\ codigo_salida' = [codigo_salida EXCEPT ![p] = Salida("return", CODIGO_EXITO)]
    /\ UNCHANGED <<total_procesos, dimension, dimension_matriz, matriz,
                   tipo_triang_sup, matriz_recibida, barrera, red, verificaciones,
                   pasaron, envios, llamadas_recv, recepciones, fn, al>>

\* one step of rank p
Paso(p) ==
    \/ Verificar(p)
    \/ EntrarBarrera(p)
    \/ SalirBarrera(p)
    \/ CrearMatriz(p)
    \/ GenerarTipo(p)
    \/ Enviar(p)
    \/ CrearRecibida(p)
    \/ Recibir(p)
    \/ CompletarRecibir(p)
    \/ MostrarYLiberar(p)
    \/ LiberarMatriz(p)
    \/ LiberarTipo(p)
    \/ Finalizar(p)

Next ==
    \/ \E p \in Rangos : Verificar(p)
    \/ \E p \in Rangos : EntrarBarrera(p)
    \/ \E p \in Rangos : SalirBarrera(p)
    \/ \E p \in Rangos : CrearMatriz(p)
    \/ \E p \in Rangos : GenerarTipo(p)
    \/ \E p \in Rangos : Enviar(p)
    \/ \E p \in Rangos : CrearRecibida(p)
    \/ \E p \in Rangos : Recibir(p)
    \/ \E p \in Rangos : CompletarRecibir(p)
    \/ \E p \in Rangos : MostrarYLiberar(p)
    \/ \E p \in Rangos : LiberarMatriz(p)
    \/ \E p \in Rangos : LiberarTipo(p)
    \/ \E p \in Rangos : Finalizar(p)

Spec == Init /\ [][Next]_vars

\* the program with the literal dimension drawn from 1 .. MaxDim: the same
\* steps, for the claims stated for every dimension
InitDim ==
    /\ \E total \in 1 .. MaxProcs : \E dim \in 1 .. MaxDim : EstadoInicial(total, dim)
    /\ fn = Inactivo
    /\ al = Inactivo

SpecDim == InitDim /\ [][Next]_vars

\* every rank is an operating-system process of its own: a rank that can take
\* a step eventually takes one
PasoDe(p) == p \in Rangos /\ Paso(p)

SpecJusto == Init /\ [][Next]_vars /\ \A p \in 0 .. (MaxProcs - 1) : WF_vars(PasoDe(p))

(* ====================== claims on the process model ==================== *)

\* the destination's MPI_Recv has returned and its buffer is still allocated
RecibidaLista ==
    /\ PROCESO_DESTINO \in Rangos
    /\ pc[PROCESO_DESTINO] = "mostrar"

\* C1 (checked under SpecDim): round trip.  For every dimension and every group
\* size >= 2, once the destination's receive has returned, the receive buffer
\* holds r*dimension+c (the source's value) at every column c >= r of row r, and
\* 0 at every column c < r; for dimension 4 it is exactly
\* [[0,1,2,3],[0,5,6,7],[0,0,10,11],[0,0,0,15]].
C1_RoundTrip ==
    RecibidaLista =>
        LET destino == matriz_recibida[PROCESO_DESTINO].datos
            origen == matriz[PROCESO_ORIGEN]
            esperado4 == <<0, 1, 2, 3, 0, 5, 6, 7, 0, 0, 10, 11, 0, 0, 0, 15>>
        IN  /\ total_procesos >= 2
            /\ DOMAIN destino = 0 .. (dimension * dimension - 1)
            /\ \A r \in 0 .. (dimension - 1) : \A c \in 0 .. (dimension - 1) :
                  /\ c >= r => destino[r * dimension + c] = r * dimension + c
                  /\ (c >= r /\ origen.estado = "viva") =>
                        destino[r * dimension + c] = origen.datos[r * dimension + c]
                  /\ c < r => destino[r * dimension + c] = 0
            /\ dimension = 4 => \A i \in 0 .. 15 : destino[i] = esperado4[i + 1]

\* C1 witness: the receive has returned in a run of dimension 4 with three ranks
C1_Witness ==
    /\ RecibidaLista
    /\ dimension = 4
    /\ total_procesos = 3
    /\ Len(recepciones) = 1

\* the configurations the claim C3 names: one rank only, source equal to
\* destination, or a repetition count other than 1
ConfiguracionRechazable ==
    \/ total_procesos = 1
    \/ PROCESO_ORIGEN = PROCESO_DESTINO
    \/ NUM_ITERACIONES # 1

\* C3: configuration rejection.  When the group has one rank, or source and
\* destination coincide, or the repetition count is not 1, no rank ever issues
\* a send or a receive.
C3_SinTransferencia ==
    ConfiguracionRechazable => (envios = <<>> /\ llamadas_recv = <<>> /\ red = <<>>)

\* C3 witness: a rejected configuration in which the validator has run and
\* aborted the run
C3_Witness ==
    /\ ConfiguracionRechazable
    /\ Len(verificaciones) = 1
    /\ pc[PROCESO_ORIGEN] = "abortado"

\* the validator has run and one of its three checks has fired
ViolacionDetectada ==
    /\ Len(verificaciones) > 0
    /\ (NUM_ITERACIONES # 1 \/ PROCESO_ORIGEN = PROCESO_DESTINO \/ total_procesos < 2)

TodosTerminados == \A p \in Rangos : pc[p] = "terminado"

\* C5: exactly-once delivery.  At most one message is ever sent, by rank 0 to
\* rank 1 with tag 10; only rank 1 receives, once, from (0, 10), and what it
\* obtains is what that send posted; a message is on the network or delivered,
\* never both and never neither; when all ranks have finished, one message has
\* been sent and delivered and none is left.
C5_ExactamenteUna ==
    /\ Len(envios) <= 1
    /\ Len(llamadas_recv) <= 1
    /\ \A i \in DOMAIN envios :
          /\ envios[i].origen = 0
          /\ envios[i].destino = 1
          /\ envios[i].etiqueta = 10
          /\ envios[i].resultado # "error"
    /\ \A i \in DOMAIN llamadas_recv :
          /\ llamadas_recv[i].por = 1
          /\ llamadas_recv[i].origen = 0
          /\ llamadas_recv[i].etiqueta = 10
    /\ \A i \in DOMAIN recepciones :
          /\ recepciones[i].por = 1
          /\ recepciones[i].origen = 0
          /\ recepciones[i].etiqueta = 10
          /\ Len(envios) = 1
          /\ recepciones[i].cable = envios[1].cable
    /\ Len(red) + Len(recepciones) = Len(envios)
    /\ (total_procesos >= 2 /\ TodosTerminados) =>
          (Len(envios) = 1 /\ Len(recepciones) = 1 /\ red = <<>>)

\* C5 witness: a run of three ranks has finished and its message was delivered
C5_Witness ==
    /\ total_procesos = 3
    /\ TodosTerminados
    /\ Len(recepciones) = 1

\* C7: safe hand-off.  The source's matrix is freed only after its send has
\* returned, and whatever the interleaving the receive obtains the values the
\* source's buffer held at the described offsets when MPI_Send was called.
C7_EntregaSegura ==
    /\ matriz[PROCESO_ORIGEN].estado = "liberada" =>
          /\ Len(envios) = 1
          /\ pc[PROCESO_ORIGEN] \in {"liberar_tipo", "finalizar", "terminado"}
    /\ \A i \in DOMAIN recepciones :
          /\ Len(envios) = 1
          /\ recepciones[i].cable = envios[1].cable
    /\ RecibidaLista =>
          LET t == tipo_triang_sup[PROCESO_DESTINO]
              mapa == MapaDeTipo(t, NUM_ITERACIONES)
          IN  /\ Len(envios) = 1
              /\ Len(mapa) = Len(envios[1].cable)
              /\ \A k \in 1 .. Len(mapa) :
                    matriz_recibida[PROCESO_DESTINO].datos[mapa[k]] = envios[1].cable[k]

\* C7 witness: the receive returned after the source had freed its matrix,
\* released its datatype and left main
C7_Witness ==
    /\ RecibidaLista
    /\ Len(recepciones) = 1
    /\ ~recepciones[1].origen_vivo
    /\ pc[PROCESO_ORIGEN] = "terminado"

\* C9 (checked under SpecJusto): termination.  With at least two ranks and
\* source # destination, every rank eventually leaves main through return
\* with exit code 0.
C9_Terminacion ==
    (total_procesos >= 2 /\ PROCESO_ORIGEN # PROCESO_DESTINO)
        ~> (\A p \in Rangos :
               /\ pc[p] = "terminado"
               /\ codigo_salida[p].causa = "return"
               /\ codigo_salida[p].codigo = 0)

\* C9 witness: a run of three ranks in which all have returned from main
C9_Witness ==
    /\ total_procesos = 3
    /\ \A p \in Rangos : pc[p] = "terminado" /\ codigo_salida[p].causa = "return"
    /\ pasaron = Rangos

(* ======================= function harness (SpecFn) ===================== *)
(* The datatype built by generar_tipo_triangular_superior(dim), for every  *)
(* dim in 1 .. MaxDim, applied to two transfers between buffers of drawn   *)
(* contents: the send of transfer k packs origen[k] through the datatype,  *)
(* the receive unpacks into destino[k] through the same datatype.          *)

Transferencias == {1, 2}

\* the buffer contents the harness draws from
Contenidos(dim) ==
    {[i \in 0 .. (dim * dim - 1) |-> v] : v \in 0 .. MaxValor}
        \cup {[i \in 0 .. (dim * dim - 1) |-> i + v * dim * dim] : v \in 0 .. MaxValor}

InitFn ==
    /\ \E dim \in 1 .. MaxDim :
       \E o \in [Transferencias -> Contenidos(dim)] :
       \E d \in [Transferencias -> Contenidos(dim)] :
          fn = [paso |-> "generar", dim |-> dim, tipo |-> TipoIndefinido,
                tipo_generado |-> TipoIndefinido,
                origen |-> o, destino |-> d, previo |-> d,
                cable |-> [k \in Transferencias |-> <<>>],
                etapa |-> [k \in Transferencias |-> "lista"]]
    /\ al = Inactivo
    /\ EstadoInicial(0, 0)

\* tipo_triang_sup = generar_tipo_triangular_superior(dimension_matriz);
FnGenerar ==
    /\ fn.paso = "generar"
    /\ LET t == generar_tipo_triangular_superior(fn.dim)
       IN  fn' = [fn EXCEPT !.tipo = t, !.tipo_generado = t, !.paso = "transferir"]
    /\ UNCHANGED <<vars_mpi, al>>

\* MPI_Send(origen[k], NUM_ITERACIONES, tipo, ...)
FnEnviar(k) ==
    /\ fn.paso = "transferir"
    /\ fn.etapa[k] = "lista"
    /\ fn' = [fn EXCEPT !.cable[k] = Empaquetar(fn.origen[k], NUM_ITERACIONES, fn.tipo),
                        !.etapa[k] = "enviada"]
    /\ UNCHANGED <<vars_mpi, al>>

\* MPI_Recv(destino[k], NUM_ITERACIONES, tipo, ...)
FnRecibir(k) ==
    /\ fn.paso = "transferir"
    /\ fn.etapa[k] = "enviada"
    /\ fn' = [fn EXCEPT !.destino[k] = Desempaquetar(fn.destino[k], NUM_ITERACIONES,
                                                     fn.tipo, fn.cable[k]),
                        !.etapa[k] = "recibida"]
    /\ UNCHANGED <<vars_mpi, al>>

\* MPI_Type_free(&tipo_triang_sup), after the last use
FnLiberar ==
    /\ fn.paso = "transferir"
    /\ \A k \in Transferencias : fn.etapa[k] = "recibida"
    /\ fn' = [fn EXCEPT !.tipo = MPI_Type_free(@), !.paso = "fin"]
    /\ UNCHANGED <<vars_mpi, al>>

NextFn ==
    \/ FnGenerar
    \/ \E k \in Transferencias : FnEnviar(k)
    \/ \E k \in Transferencias : FnRecibir(k)
    \/ FnLiberar

SpecFn == InitFn /\ [][NextFn]_vars

(* ===================== claims on the function harness ================== *)

\* the harness holds a datatype built and committed by the Layout Builder
FnTipoListo == fn.paso \in {"transferir", "fin"} /\ fn.tipo_generado.estado = "comprometido"

\* the flat offsets covered by the blocks of datatype t
Cubiertos(t) ==
    UNION {t.desplazamientos[i] .. (t.desplazamientos[i] + t.longitudes[i] - 1) :
             i \in 0 .. (t.cuenta - 1)}

RECURSIVE SumaLongitudes(_, _)
\* the sum of the block lengths of t from block i on
SumaLongitudes(t, i) ==
    IF i >= t.cuenta THEN 0 ELSE t.longitudes[i] + SumaLongitudes(t, i + 1)

\* the flat offsets of the upper triangle of a dim x dim row-major matrix
Triangulo(dim) ==
    UNION {{r * dim + c : c \in r .. (dim - 1)} : r \in 0 .. (dim - 1)}

\* C2 (checked under SpecFn): layout coverage.  For every dimension the blocks
\* of the built datatype cover dimension*(dimension+1)/2 distinct offsets, no
\* offset lies in two blocks, every covered offset is inside the buffer, and
\* the covered offsets are exactly {r*dimension+c : r <= c}.
C2_Cobertura ==
    FnTipoListo =>
        LET t == fn.tipo_generado
            dim == fn.dim
            bloque(i) == t.desplazamientos[i] .. (t.desplazamientos[i] + t.longitudes[i] - 1)
            cubiertos == Cubiertos(t)
        IN  /\ 2 * Cardinality(cubiertos) = dim * (dim + 1)
            /\ 2 * SumaLongitudes(t, 0) = dim * (dim + 1)
            /\ \A i1 \in 0 .. (t.cuenta - 1) : \A i2 \in 0 .. (t.cuenta - 1) :
                  i1 # i2 => bloque(i1) \cap bloque(i2) = {}
            /\ cubiertos \subseteq 0 .. (dim * dim - 1)
            /\ cubiertos = Triangulo(dim)

\* C2 witness: the datatype of a 3 x 3 matrix has been built
C2_Witness == FnTipoListo /\ fn.dim = 3 /\ fn.tipo_generado.cuenta = 3

\* C6 (checked under SpecFn): frame of receive.  Whatever the receive buffer
\* held before the call, after the receive every offset below the diagonal
\* (row r, column c < r) holds its pre-call value, and an offset whose value
\* changed is one the datatype names.
C6_MarcoDeRecibir ==
    \A k \in Transferencias :
        (fn.paso # "inactivo" /\ fn.etapa[k] = "recibida") =>
            LET dim == fn.dim
                nombrados == Cubiertos(fn.tipo_generado)
            IN  /\ DOMAIN fn.destino[k] = DOMAIN fn.previo[k]
                /\ \A r \in 0 .. (dim - 1) : \A c \in 0 .. (dim - 1) :
                      c < r => fn.destino[k][r * dim + c] = fn.previo[k][r * dim + c]
                /\ \A i \in DOMAIN fn.destino[k] :
                      fn.destino[k][i] # fn.previo[k][i] => i \in nombrados

\* C6 witness: a receive into a 3 x 3 buffer that held non-zero values
\* everywhere has returned and has changed the buffer
C6_Witness ==
    /\ fn.paso # "inactivo"
    /\ fn.dim = 3
    /\ fn.etapa[1] = "recibida"
    /\ \A i \in DOMAIN fn.previo[1] : fn.previo[1][i] # 0
    /\ fn.destino[1] # fn.previo[1]

\* C10 (checked under SpecFn): descriptor reuse.  The committed datatype is
\* the same before and after each transfer that uses it; a destination buffer
\* whose receive has returned holds its own source's values on the upper
\* triangle and its own pre-call values below it; a destination buffer whose
\* receive has not returned is untouched by the other transfer.
C10_Reutilizacion ==
    fn.paso # "inactivo" =>
        /\ fn.paso = "transferir" => fn.tipo = fn.tipo_generado
        /\ fn.paso = "fin" => fn.tipo = MPI_Type_free(fn.tipo_generado)
        /\ \A k \in Transferencias :
              IF fn.etapa[k] = "recibida"
              THEN \A r \in 0 .. (fn.dim - 1) : \A c \in 0 .. (fn.dim - 1) :
                      fn.destino[k][r * fn.dim + c] =
                          IF c >= r THEN fn.origen[k][r * fn.dim + c]
                          ELSE fn.previo[k][r * fn.dim + c]
              ELSE fn.destino[k] = fn.previo[k]

\* C10 witness: both transfers through the one datatype are done, with
\* different sources, different pre-call destinations and different results
C10_Witness ==
    /\ fn.paso = "transferir"
    /\ fn.dim = 3
    /\ fn.etapa[1] = "recibida" /\ fn.etapa[2] = "recibida"
    /\ fn.origen[1] # fn.origen[2]
    /\ fn.previo[1] # fn.previo[2]
    /\ fn.destino[1] # fn.destino[2]

(* ===================== allocation harness (SpecAlloc) ================== *)
(* generar_tipo_triangular_superior(dim) statement by statement, with each *)
(* malloc free to return NULL.  The function never tests malloc's result:  *)
(* a store through, or a read from, a NULL table is undefined behaviour,   *)
(* modelled as a choice between the process being killed and execution     *)
(* going on (the store lost, the read yielding arbitrary values).          *)

\* the pointer malloc returns on failure
PunteroNulo == [estado |-> "nulo", datos |-> <<>>]

\* the result of malloc(dim * sizeof(int)): a table of dim ints, or NULL
malloc(dim, exito) ==
    IF exito THEN Viva([i \in 0 .. (dim - 1) |-> "sin_inicializar"]) ELSE PunteroNulo

\* tabla[fila] = valor; with tabla a live table
Almacenar(tabla, fila, valor) == Viva([tabla.datos EXCEPT ![fila] = valor])

\* the tables a read through a NULL pointer may yield when it does not trap
TablasArbitrarias(dim) == {[i \in 0 .. (dim - 1) |-> v] : v \in 0 .. 1}

InitAlloc ==
    /\ \E dim \in 1 .. MaxDim :
          al = [paso |-> "malloc_longitudes", dim |-> dim,
                longitudes_bloques |-> SinAsignar, desplazamientos |-> SinAsignar,
                fila |-> 0, tipo_triang_sup |-> TipoIndefinido,
                resultado |-> "en_curso", escrituras |-> 0]
    /\ fn = Inactivo
    /\ EstadoInicial(0, 0)

\* int* longitudes_bloques = (int*)malloc(dimension * sizeof(int));
AlMallocLongitudes ==
    /\ al.paso = "malloc_longitudes"
    /\ \E exito \in BOOLEAN :
          al' = [al EXCEPT !.longitudes_bloques = malloc(al.dim, exito),
                           !.paso = "malloc_desplazamientos"]
    /\ UNCHANGED <<vars_mpi, fn>>

\* int* desplazamientos = (int*)malloc(dimension * sizeof(int));
AlMallocDesplazamientos ==
    /\ al.paso = "malloc_desplazamientos"
    /\ \E exito \in BOOLEAN :
          al' = [al EXCEPT !.desplazamientos = malloc(al.dim, exito),
                           !.paso = "bucle"]
    /\ UNCHANGED <<vars_mpi, fn>>

\* one iteration of the loop: both stores succeed on live tables
AlIterar ==
    /\ al.paso = "bucle"
    /\ al.fila < al.dim
    /\ al.longitudes_bloques.estado = "viva"
    /\ al.desplazamientos.estado = "viva"
    /\ al' = [al EXCEPT
                !.longitudes_bloques = Almacenar(@, al.fila, al.dim - al.fila),
                !.desplazamientos = Almacenar(@, al.fila, (al.fila * al.dim) + al.fila),
                !.escrituras = @ + 2,
                !.fila = @ + 1]
    /\ UNCHANGED <<vars_mpi, fn>>

\* one iteration of the loop with a NULL table: the store through NULL traps
AlIterarNuloTrampa ==
    /\ al.paso = "bucle"
    /\ al.fila < al.dim
    /\ \/ al.longitudes_bloques.estado = "nulo"
       \/ al.desplazamientos.estado = "nulo"
    /\ al' = [al EXCEPT !.paso = "fin", !.resultado = "violacion_de_segmento"]
    /\ UNCHANGED <<vars_mpi, fn>>

\* one iteration of the loop with a NULL table: the store through NULL is
\* lost, the store to a live table is done, and the loop goes on
AlIterarNuloSigue ==
    /\ al.paso = "bucle"
    /\ al.fila < al.dim
    /\ \/ al.longitudes_bloques.estado = "nulo"
       \/ al.desplazamientos.estado = "nulo"
    /\ al' = [al EXCEPT
                !.longitudes_bloques =
                    IF @.estado = "viva" THEN Almacenar(@, al.fila, al.dim - al.fila) ELSE @,
                !.desplazamientos =
                    IF @.estado = "viva"
                    THEN Almacenar(@, al.fila, (al.fila * al.dim) + al.fila) ELSE @,
                !.escrituras = @ + (IF al.longitudes_bloques.estado = "viva" THEN 1 ELSE 0)
                                 + (IF al.desplazamientos.estado = "viva" THEN 1 ELSE 0),
                !.fila = @ + 1]
    /\ UNCHANGED <<vars_mpi, fn>>

\* MPI_Type_indexed(dimension, longitudes_bloques, desplazamientos, MPI_INT, &t)
\* reading two live tables
AlTypeIndexed ==
    /\ al.paso = "bucle"
    /\ al.fila >= al.dim
    /\ al.longitudes_bloques.estado = "viva"
    /\ al.desplazamientos.estado = "viva"
    /\ al' = [al EXCEPT
                !.tipo_triang_sup = MPI_Type_indexed(al.dim, al.longitudes_bloques.datos,
                                                     al.desplazamientos.datos),
                !.paso = "commit"]
    /\ UNCHANGED <<vars_mpi, fn>>

\* MPI_Type_indexed reading a NULL table: the read traps
AlTypeIndexedNuloTrampa ==
    /\ al.paso = "bucle"
    /\ al.fila >= al.dim
    /\ \/ al.longitudes_bloques.estado = "nulo"
       \/ al.desplazamientos.estado = "nulo"
    /\ al' = [al EXCEPT !.paso = "fin", !.resultado = "violacion_de_segmento"]
    /\ UNCHANGED <<vars_mpi, fn>>

\* MPI_Type_indexed reading a NULL table: the read yields arbitrary values
AlTypeIndexedNuloSigue ==
    /\ al.paso = "bucle"
    /\ al.fila >= al.dim
    /\ \/ al.longitudes_bloques.estado = "nulo"
       \/ al.desplazamientos.estado = "nulo"
    /\ \E basura1 \in TablasArbitrarias(al.dim) : \E basura2 \in TablasArbitrarias(al.dim) :
          al' = [al EXCEPT
                   !.tipo_triang_sup = MPI_Type_indexed(al.dim,
                       IF al.longitudes_bloques.estado = "viva"
                       THEN al.longitudes_bloques.datos ELSE basura1,
                       IF al.desplazamientos.estado = "viva"
                       THEN al.desplazamientos.datos ELSE basura2),
                   !.paso = "commit"]
    /\ UNCHANGED <<vars_mpi, fn>>

\* MPI_Type_commit(&tipo_triang_sup);
AlCommit ==
    /\ al.paso = "commit"
    /\ al' = [al EXCEPT !.tipo_triang_sup = MPI_Type_commit(@), !.paso = "free_longitudes"]
    /\ UNCHANGED <<vars_mpi, fn>>

\* free(longitudes_bloques);  (free(NULL) does nothing)
AlFreeLongitudes ==
    /\ al.paso = "free_longitudes"
    /\ al' = [al EXCEPT
                !.longitudes_bloques = IF @.estado = "nulo" THEN @ ELSE Liberada,
                !.paso = "free_desplazamientos"]
    /\ UNCHANGED <<vars_mpi, fn>>

\* free(desplazamientos);
AlFreeDesplazamientos ==
    /\ al.paso = "free_desplazamientos"
    /\ al' = [al EXCEPT
                !.desplazamientos = IF @.estado = "nulo" THEN @ ELSE Liberada,
                !.paso = "return"]
    /\ UNCHANGED <<vars_mpi, fn>>

\* return tipo_triang_sup;
AlReturn ==
    /\ al.paso = "return"
    /\ al' = [al EXCEPT !.paso = "fin", !.resultado = "tipo_devuelto"]
    /\ UNCHANGED <<vars_mpi, fn>>

NextAlloc ==
    \/ AlMallocLongitudes
    \/ AlMallocDesplazamientos
    \/ AlIterar
    \/ AlIterarNuloTrampa
    \/ AlIterarNuloSigue
    \/ AlTypeIndexed
    \/ AlTypeIndexedNuloTrampa
    \/ AlTypeIndexedNuloSigue
    \/ AlCommit
    \/ AlFreeLongitudes
    \/ AlFreeDesplazamientos
    \/ AlReturn

SpecAlloc == InitAlloc /\ [][NextAlloc]_vars

\* a malloc of the Layout Builder has returned NULL
AlFalloMalloc ==
    /\ al.paso # "inactivo"
    /\ \/ al.longitudes_bloques.estado = "nulo"
       \/ al.desplazamientos.estado = "nulo"

\* C8 (checked under SpecAlloc): allocation failure.  If storage for the
\* block-length table or the block-offset table cannot be obtained, the Layout
\* Builder ends with an AllocationError, writes no table and creates or
\* commits no datatype.
C8_ErrorDeAsignacion ==
    (AlFalloMalloc /\ al.paso \notin {"malloc_longitudes", "malloc_desplazamientos"}) =>
        /\ al.tipo_triang_sup.estado = "indefinido"
        /\ al.escrituras = 0
        /\ al.paso = "fin" => al.resultado = "error_de_asignacion"

(* ================= further claims on the function harness ============== *)

\* C11 (checked under SpecFn): boundary dimension = 1.  The built datatype is
\* a single block of length 1 at offset 0; a transfer through it carries
\* exactly one element, and after the receive the destination's 1 x 1 buffer
\* equals the source's whole matrix.
C11_DimensionUno ==
    (FnTipoListo /\ fn.dim = 1) =>
        /\ fn.tipo_generado.cuenta = 1
        /\ DOMAIN fn.tipo_generado.longitudes = {0}
        /\ DOMAIN fn.tipo_generado.desplazamientos = {0}
        /\ fn.tipo_generado.longitudes[0] = 1
        /\ fn.tipo_generado.desplazamientos[0] = 0
        /\ \A k \in Transferencias :
              /\ fn.etapa[k] \in {"enviada", "recibida"} =>
                    (Len(fn.cable[k]) = 1 /\ fn.cable[k][1] = fn.origen[k][0])
              /\ fn.etapa[k] = "recibida" =>
                    (DOMAIN fn.destino[k] = {0} /\ fn.destino[k] = fn.origen[k])

\* C11 witness: a 1 x 1 receive has returned into a buffer that held another
\* value than the source's
C11_Witness ==
    /\ FnTipoListo
    /\ fn.dim = 1
    /\ fn.etapa[1] = "recibida"
    /\ fn.previo[1] # fn.origen[1]
    /\ fn.destino[1] = fn.origen[1]

\* C12 (checked under SpecFn): descriptor shape.  For every dimension the
\* built datatype has exactly dimension (length, offset) pairs, with
\* length[r] = dimension - r and offset[r] = r*dimension + r; lengths decrease
\* by exactly 1 from one row to the next and offsets strictly increase.
C12_FormaDelDescriptor ==
    FnTipoListo =>
        LET t == fn.tipo_generado
            dim == fn.dim
        IN  /\ t.cuenta = dim
            /\ DOMAIN t.longitudes = 0 .. (dim - 1)
            /\ DOMAIN t.desplazamientos = 0 .. (dim - 1)
            /\ \A r \in 0 .. (dim - 1) :
                  /\ t.longitudes[r] = dim - r
                  /\ t.desplazamientos[r] = r * dim + r
            /\ \A r \in 0 .. (dim - 2) :
                  /\ t.longitudes[r + 1] = t.longitudes[r] - 1
                  /\ t.desplazamientos[r + 1] > t.desplazamientos[r]

\* C12 witness: the datatype of a 4 x 4 matrix has been built and committed
C12_Witness ==
    /\ FnTipoListo
    /\ fn.dim = 4
    /\ fn.tipo.estado = "comprometido"
    /\ fn.tipo_generado.cuenta = 4

(* ================= further claims on the process model ================= *)

\* a transfer has been attempted or the barrier has been passed by some rank
AlgoTrasLaBarrera ==
    \/ pasaron # {}
    \/ envios # <<>>
    \/ llamadas_recv # <<>>
    \/ \E p \in Rangos : pc[p] \notin {"verificar", "barrera", "en_barrera", "abortado"}

\* C13: validation precedes transfer.  The validator runs at most once in a
\* run and only on the source; by the time any rank has passed the barrier,
\* or any send or receive has been issued, it has run once and none of its
\* checks has fired; a run that ends has run it exactly once.
C13_ValidacionPrimero ==
    /\ Len(verificaciones) <= 1
    /\ \A i \in DOMAIN verificaciones : verificaciones[i] = PROCESO_ORIGEN
    /\ pc[PROCESO_ORIGEN] # "verificar" => Len(verificaciones) = 1
    /\ AlgoTrasLaBarrera =>
          /\ Len(verificaciones) = 1
          /\ pc[PROCESO_ORIGEN] \notin {"verificar", "abortado"}
          /\ total_procesos >= 2
          /\ PROCESO_ORIGEN # PROCESO_DESTINO
          /\ NUM_ITERACIONES = 1
    /\ (\A p \in Rangos : pc[p] \in {"terminado", "abortado"}) => Len(verificaciones) = 1

\* C13 witness: the validator has run, every rank of a group of three has
\* passed the barrier, and the send and the receive have been issued
C13_Witness ==
    /\ total_procesos = 3
    /\ verificaciones = <<PROCESO_ORIGEN>>
    /\ pasaron = Rangos
    /\ Len(envios) = 1
    /\ Len(llamadas_recv) = 1

\* C14: send and receive preconditions.  Whenever the source is about to call
\* MPI_Send, the destination is a rank of the group, differs from the caller,
\* and the group has at least 2 ranks; whenever the destination is about to
\* call MPI_Recv, the source it names is a rank of the group; no send or
\* receive ever ends in an MPI error.
C14_Precondiciones ==
    /\ \A p \in Rangos :
          /\ pc[p] = "enviar" =>
                /\ p = PROCESO_ORIGEN
                /\ 0 <= PROCESO_DESTINO
                /\ PROCESO_DESTINO < total_procesos
                /\ PROCESO_DESTINO # p
                /\ total_procesos >= 2
          /\ pc[p] = "recibir" =>
                /\ p = PROCESO_DESTINO
                /\ 0 <= PROCESO_ORIGEN
                /\ PROCESO_ORIGEN < total_procesos
                /\ PROCESO_ORIGEN # p
          /\ codigo_salida[p].causa # "error_mpi"
    /\ \A i \in DOMAIN envios :
          /\ envios[i].resultado # "error"
          /\ envios[i].destino \in Rangos
          /\ envios[i].destino # envios[i].origen
    /\ \A i \in DOMAIN llamadas_recv : llamadas_recv[i].origen \in Rangos

\* C14 witness: the source stands at its MPI_Send while the destination
\* stands at its MPI_Recv
C14_Witness ==
    /\ PROCESO_DESTINO \in Rangos
    /\ pc[PROCESO_ORIGEN] = "enviar"
    /\ pc[PROCESO_DESTINO] = "recibir"

\* C15: resource lifecycle.  A rank's datatype is committed, and the buffer it
\* passes is allocated, whenever the rank is at or inside its MPI_Send or
\* MPI_Recv (and the receive buffer when it is printed); nothing is freed
\* twice or freed without having been allocated; the matrix and the datatype
\* are released only after the rank's own send or receive has returned; and a
\* rank at MPI_Finalize or past it has released its matrix, its datatype and,
\* on the destination, the receive buffer, and holds nothing else.
C15_CicloDeVida ==
    \A p \in Rangos :
        /\ pc[p] \in {"enviar", "send_bloqueado"} =>
              /\ tipo_triang_sup[p].estado = "comprometido"
              /\ matriz[p].estado = "viva"
        /\ pc[p] \in {"recibir", "recv_bloqueado"} =>
              /\ tipo_triang_sup[p].estado = "comprometido"
              /\ matriz_recibida[p].estado = "viva"
        /\ pc[p] = "mostrar" => matriz_recibida[p].estado = "viva"
        /\ matriz[p].estado # "corrupta"
        /\ matriz_recibida[p].estado # "corrupta"
        /\ tipo_triang_sup[p].estado # "invalido"
        /\ matriz_recibida[p].estado = "liberada" =>
              /\ p = PROCESO_DESTINO
              /\ Len(recepciones) = 1
              /\ pc[p] \in {"liberar_matriz", "liberar_tipo", "finalizar", "terminado"}
        /\ matriz[p].estado = "liberada" =>
              /\ pc[p] \in {"liberar_tipo", "finalizar", "terminado"}
              /\ p = PROCESO_ORIGEN => Len(envios) = 1
              /\ p = PROCESO_DESTINO => Len(recepciones) = 1
        /\ tipo_triang_sup[p].estado = "liberado" =>
              /\ pc[p] \in {"finalizar", "terminado"}
              /\ matriz[p].estado = "liberada"
        /\ pc[p] \in {"finalizar", "terminado"} =>
              /\ matriz[p].estado = "liberada"
              /\ tipo_triang_sup[p].estado = "liberado"
              /\ matriz_recibida[p].estado =
                    (IF p = PROCESO_DESTINO THEN "liberada" ELSE "sin_asignar")

\* C15 witness: the three ranks of a run have all returned from main, each
\* with its resources released
C15_Witness ==
    /\ total_procesos = 3
    /\ \A p \in Rangos :
          /\ pc[p] = "terminado"
          /\ matriz[p].estado = "liberada"
          /\ tipo_triang_sup[p].estado = "liberado"
    /\ matriz_recibida[PROCESO_DESTINO].estado = "liberada"

\* C16 (checked under SpecDim): matching layouts at the rendezvous.  Every
\* rank takes the same dimension and builds its datatype from it, so all
\* committed datatypes are the same sequence of (length, offset) pairs, and
\* whenever a receive has matched the send, the sender's datatype at the send
\* and the receiver's datatype at the receive are that same sequence.
C16_MismoTrazado ==
    /\ \A p \in Rangos : \A q \in Rangos :
          /\ (dimension_matriz[p] # 0 /\ dimension_matriz[q] # 0) =>
                dimension_matriz[p] = dimension_matriz[q]
          /\ tipo_triang_sup[p].estado = "comprometido" =>
                tipo_triang_sup[p].cuenta = dimension_matriz[p]
          /\ (tipo_triang_sup[p].estado = "comprometido"
                /\ tipo_triang_sup[q].estado = "comprometido") =>
                /\ tipo_triang_sup[p].longitudes = tipo_triang_sup[q].longitudes
                /\ tipo_triang_sup[p].desplazamientos = tipo_triang_sup[q].desplazamientos
    /\ \A i \in DOMAIN recepciones :
          /\ Len(envios) = 1
          /\ LET a == envios[1].tipo
                 b == recepciones[i].tipo
             IN  /\ a.estado = "comprometido"
                 /\ b.estado = "comprometido"
                 /\ a.cuenta = b.cuenta
                 /\ \A r \in 0 .. (a.cuenta - 1) :
                       /\ a.longitudes[r] = b.longitudes[r]
                       /\ a.desplazamientos[r] = b.desplazamientos[r]
                 /\ MapaDeTipo(a, NUM_ITERACIONES) = MapaDeTipo(b, NUM_ITERACIONES)

\* C16 witness: in a run of dimension 3 the receive has matched the send
C16_Witness ==
    /\ dimension = 3
    /\ Len(envios) = 1
    /\ Len(recepciones) = 1
    /\ recepciones[1].tipo.cuenta = 3
    /\ envios[1].tipo.cuenta = 3

\* C17 (checked under SpecDim): ownership isolation.  In every state, every
\* matrix that is allocated - the source's, the destination's own, any other
\* rank's - holds r*dimension+c at row r, column c; only the destination ever
\* has a receive buffer, and no rank but the destination owns one.
C17_Aislamiento ==
    \A p \in Rangos :
        /\ matriz[p].estado = "viva" =>
              /\ DOMAIN matriz[p].datos = 0 .. (dimension * dimension - 1)
              /\ \A r \in 0 .. (dimension - 1) : \A c \in 0 .. (dimension - 1) :
                    matriz[p].datos[r * dimension + c] = r * dimension + c
        /\ p # PROCESO_DESTINO => matriz_recibida[p].estado = "sin_asignar"

\* C17 witness: the receive has returned and changed the receive buffer while
\* the matrices of all three ranks are still allocated
C17_Witness ==
    /\ total_procesos = 3
    /\ dimension = 4
    /\ Len(recepciones) = 1
    /\ pc[PROCESO_DESTINO] = "mostrar"
    /\ matriz_recibida[PROCESO_DESTINO].datos # crear_matriz(dimension, 0).datos
    /\ \A p \in Rangos : matriz[p].estado = "viva"

====
